---- MODULE Spec2Model ----
(***************************************************************************)
(* A model of FCN-TensorFlow: the training / evaluation driver of          *)
(* trainer_fcn.py (the session part, lines 433-651), its manifest loader   *)
(* loadDataset, its loss weighting and its writeMaskToImage.               *)
(*                                                                         *)
(* Several specifications share the module:                                *)
(*   Spec       the run of the script once the graph is built              *)
(*   SpecLoad   loadDataset on one manifest file                           *)
(*   SpecLoss   the 'Loss' block on one batch                              *)
(*   SpecWrite  writeMaskToImage's output file name                        *)
(*   SpecPipe   the tf.data pipeline: map, shuffle, get_next               *)
(*   SpecAug    dataAugmentationFunction on one image / mask pair          *)
(*   SpecResize parseFunction's resizing of image and mask                 *)
(*   SpecStart  the module-level names read from graph build to session    *)
(*   SpecShape  the loss's shape requirements in the training loop         *)
(*   SpecReader legacy/inputReader.py: getTrainBatch, restoreCheckpoint    *)
(* Each specification moves its own variables and leaves the others at     *)
(* their idle values.                                                      *)
(***************************************************************************)
EXTENDS Integers, Sequences, FiniteSets, TLC

VARIABLES
    \* ---- the run (Spec) ----
    options,        \* the parsed command line options the run reads
    numFiles,       \* [split -> number of manifest entries] (loadDataset's numFiles)
    bad,            \* <<split, i>>: entry i of the split cannot be decoded
    ckptOnDisk,     \* a checkpoint <outputModelDir>/<outputModelName> exists
    pc,             \* position of the script
    raised,         \* the exception that ended the process ("none" while it runs)
    iterPos,        \* [split -> elements its iterator has handed out since its initializer ran]
    initCount,      \* [split -> times the split's iterator initializer ran]
    epoch,          \* epochs completed (the value of the for variable at the loop head)
    step,           \* trainer_fcn.py `step`
    globalStep,     \* trainer_fcn.py `globalStep`
    iterations,     \* trainer_fcn.py `iterations`
    epIdx,          \* end points already fetched by the debug loop of this iteration
    params,         \* number of applyGradients runs so far (version of the model parameters)
    epochGrads,     \* the examples applyGradients consumed in the current epoch, in order
    epochSaves,     \* saver.save calls made by the step % saveStep test in the current epoch
    finalSaves,     \* saver.save calls made after the epoch loop
    traversals,     \* [split -> traversals of the split that ended on OutOfRangeError]
    written,        \* [split -> the writeMaskToImage calls into its output directory, in order]
    \* ---- loadDataset (SpecLoad) ----
    manifest,           \* the characters of the file currentDataFile
    imageFileNames,     \* f.readlines(): the manifest's lines
    lineIdx,            \* lines already handled by the for loop
    originalImageNames, \* trainer_fcn.py `originalImageNames`
    maskImageNames,     \* trainer_fcn.py `maskImageNames`
    loadPc,             \* position inside loadDataset
    \* ---- Loss (SpecLoss) ----
    inputMaskFlattened, \* the labels of the batch, one per pixel
    pixelLoss,          \* the unweighted sparse softmax cross entropy of each pixel
    weights,            \* trainer_fcn.py `weights`
    crossEntropyLoss,   \* trainer_fcn.py `crossEntropyLoss`
    lossPc,             \* position inside the Loss block
    \* ---- writeMaskToImage (SpecWrite) ----
    wFileName,          \* fileName[0], the example's image path
    wSite,              \* the call site of writeMaskToImage
    outputFileName,     \* trainer_fcn.py `outputFileName`
    wPc,                \* position inside writeMaskToImage
    \* ---- the input pipeline of one split (SpecPipe) ----
    pOptions,           \* the options and arguments loadDataset builds the dataset from
    pNumFiles,          \* loadDataset's numFiles
    pSource,            \* elements from_tensor_slices has handed to the first map
    pParse,             \* the parseFunction calls in flight, in the order they were started
    pAug,               \* the dataAugmentationFunction calls in flight, in the same order
    pShuffle,           \* the elements in the shuffle buffer
    pOvertaken,         \* a call has finished while an earlier call of its map was running
    pulled,             \* the examples get_next has returned since the initializer ran
    pPc,                \* "ready", "end" once get_next raised OutOfRangeError, "idle"
    \* ---- dataAugmentationFunction on one example (SpecAug) ----
    aIn,                \* the arguments img and mask: the example parseFunction returned
    aImg,               \* trainer_fcn.py `img`, a sequence of rows of pixels
    aMask,              \* trainer_fcn.py `mask`, a sequence of rows of pixels
    randomVarLR,        \* trainer_fcn.py `randomVar` of the flipLR scope (-1 before it is drawn)
    randomVarUD,        \* trainer_fcn.py `randomVar` of the flipUD scope (-1 before it is drawn)
    aPc,                \* position inside dataAugmentationFunction
    \* ---- parseFunction on one example (SpecResize) ----
    rOptions,           \* options.maxImageSize and options.mapLabelsFromRGB
    rSource,            \* <<height, width>> of the decoded image and of the decoded mask
    imgShape,           \* <<height, width>> of trainer_fcn.py `img` once resized
    maskShape,          \* <<height, width>> of trainer_fcn.py `mask` once resized
    rPc,                \* position inside parseFunction
    \* ---- the start of the script (SpecStart) ----
    sOptions,           \* the options the start of the script reads
    sFiles,             \* what the script finds on disk
    assigned,           \* the module-level names bound so far
    sRaised,            \* the name whose read raised NameError ("none" if none did)
    sPc,                \* position of the script
    \* ---- the shapes of the batches of a training epoch (SpecShape) ----
    hOptions,           \* options.debug and options.displayStep
    hNumFiles,          \* entries of the train manifest
    hPos,               \* batches the train iterator has handed out
    hStep,              \* trainer_fcn.py `step`
    hEpIdx,             \* end points already fetched by the debug loop of this iteration
    predShape,          \* the shape of predictedMask on the batch of the last session.run
    gtShape,            \* the shape of inputBatchMasks on that batch
    lossComputed,       \* that run computed the loss on its batch
    hRaised,            \* the exception that ended the process ("none" while it runs)
    hPc,                \* position of the script
    \* ---- legacy/inputReader.py: InputReader (SpecReader) ----
    readerOptions,      \* options.batchSize, options.trainingEpochs, options.randomFetch
    imageList,          \* InputReader.imageList: the train files, named by their line number
    currentIndex,       \* InputReader.currentIndex
    totalEpochs,        \* InputReader.totalEpochs
    totalImages,        \* InputReader.totalImages
    indices,            \* InputReader.indices: the (0-based) indices of the last batch
    trainCalls,         \* getTrainBatch calls made since the reader was constructed
    returned,           \* what the last getTrainBatch call returned: "batch", "None", "nothing"
    restoredSteps,      \* numSteps of the last restoreCheckpoint call, -1 if there was none
    readerPc            \* "ready", or the exception that ended the process, or "idle"

runVars == <<options, numFiles, bad, ckptOnDisk, pc, raised, iterPos, initCount,
             epoch, step, globalStep, iterations, epIdx, params, epochGrads,
             epochSaves, finalSaves, traversals, written>>
loadVars == <<manifest, imageFileNames, lineIdx, originalImageNames, maskImageNames, loadPc>>
lossVars == <<inputMaskFlattened, pixelLoss, weights, crossEntropyLoss, lossPc>>
writeVars == <<wFileName, wSite, outputFileName, wPc>>
pipeVars == <<pOptions, pNumFiles, pSource, pParse, pAug, pShuffle, pOvertaken, pulled, pPc>>
augVars == <<aIn, aImg, aMask, randomVarLR, randomVarUD, aPc>>
resizeVars == <<rOptions, rSource, imgShape, maskShape, rPc>>
startVars == <<sOptions, sFiles, assigned, sRaised, sPc>>
shapeVars == <<hOptions, hNumFiles, hPos, hStep, hEpIdx, predShape, gtShape, lossComputed, hRaised, hPc>>
readerVars == <<readerOptions, imageList, currentIndex, totalEpochs, totalImages, indices, trainCalls, returned, restoredSteps, readerPc>>
vars == <<runVars, loadVars, lossVars, writeVars, pipeVars, augVars, resizeVars, startVars, shapeVars, readerVars>>
notRun == <<loadVars, lossVars, writeVars, pipeVars, augVars, resizeVars, startVars, shapeVars, readerVars>>
notLoad == <<runVars, lossVars, writeVars, pipeVars, augVars, resizeVars, startVars, shapeVars, readerVars>>
notLoss == <<runVars, loadVars, writeVars, pipeVars, augVars, resizeVars, startVars, shapeVars, readerVars>>
notWrite == <<runVars, loadVars, lossVars, pipeVars, augVars, resizeVars, startVars, shapeVars, readerVars>>
notPipe == <<runVars, loadVars, lossVars, writeVars, augVars, resizeVars, startVars, shapeVars, readerVars>>
notAug == <<runVars, loadVars, lossVars, writeVars, pipeVars, resizeVars, startVars, shapeVars, readerVars>>
notResize == <<runVars, loadVars, lossVars, writeVars, pipeVars, augVars, startVars, shapeVars, readerVars>>
notStart == <<runVars, loadVars, lossVars, writeVars, pipeVars, augVars, resizeVars, shapeVars, readerVars>>
notShape == <<runVars, loadVars, lossVars, writeVars, pipeVars, augVars, resizeVars, startVars, readerVars>>
notReader == <<runVars, loadVars, lossVars, writeVars, pipeVars, augVars, resizeVars, startVars, shapeVars>>

(***************************************************************************)
(* Constants of trainer_fcn.py                                             *)
(***************************************************************************)
TRAIN == 0
VAL == 1
TEST == 2
Splits == {TRAIN, VAL, TEST}

(***************************************************************************)
(* Bounds of the model                                                     *)
(***************************************************************************)
MaxTrainFiles == 3
MaxEvalFiles == 2
MaxEpochs == 2
MaxDisplayStep == 2
MaxSaveStep == 2
MaxPipeFiles == 3
MaxLoaders == 2
MaxAugSide == 2
MaxSourceSide == 12
MaxShapeFiles == 3
MaxShapeSide == 2
MaxImages == 3
MaxBatchSize == 3
MaxReaderEpochs == 2
MaxCalls == 6
\* Number of entries of the encoder's endPoints dictionary (it is built by the
\* slim network, outside this repository); the debug loop fetches each of them.
NumEndPoints == 1


(***************************************************************************)
(* Idle values: what a specification leaves in the variables of the others *)
(***************************************************************************)
RunIdle ==
    /\ options = [trainModel |-> FALSE, testModel |-> FALSE, debug |-> FALSE,
                  displayStep |-> 1, saveStep |-> 1, trainingEpochs |-> 0,
                  useCRFPostProcessing |-> FALSE]
    /\ numFiles = [s \in Splits |-> 1]
    /\ bad = {}
    /\ ckptOnDisk = FALSE
    /\ pc = "idle"
    /\ raised = "none"
    /\ iterPos = [s \in Splits |-> 0]
    /\ initCount = [s \in Splits |-> 0]
    /\ epoch = 0 /\ step = 0 /\ globalStep = 0 /\ iterations = 0 /\ epIdx = 0
    /\ params = 0 /\ epochGrads = <<>> /\ epochSaves = 0 /\ finalSaves = 0
    /\ traversals = [s \in Splits |-> 0]
    /\ written = [s \in Splits |-> <<>>]

LoadIdle ==
    /\ manifest = <<>> /\ imageFileNames = <<>> /\ lineIdx = 0
    /\ originalImageNames = <<>> /\ maskImageNames = <<>>
    /\ loadPc = "idle"

LossIdle ==
    /\ inputMaskFlattened = <<>> /\ pixelLoss = <<>>
    /\ weights = 0 /\ crossEntropyLoss = "none"
    /\ lossPc = "idle"

WriteIdle ==
    /\ wFileName = <<>> /\ wSite = "none" /\ outputFileName = <<>>
    /\ wPc = "idle"

PipeIdle ==
    /\ pOptions = [shufflePerBatch |-> FALSE, dataAugmentation |-> FALSE,
                   numParallelLoaders |-> 1]
    /\ pNumFiles = 1 /\ pSource = 0 /\ pParse = <<>> /\ pAug = <<>>
    /\ pShuffle = {} /\ pOvertaken = FALSE /\ pulled = <<>>
    /\ pPc = "idle"

AugIdle ==
    /\ aIn = <<>> /\ aImg = <<>> /\ aMask = <<>>
    /\ randomVarLR = -1 /\ randomVarUD = -1
    /\ aPc = "idle"

ResizeIdle ==
    /\ rOptions = [maxImageSize |-> 1, mapLabelsFromRGB |-> FALSE]
    /\ rSource = [img |-> <<1, 1>>, mask |-> <<1, 1>>]
    /\ imgShape = <<>> /\ maskShape = <<>>
    /\ rPc = "idle"

StartIdle ==
    /\ sOptions = [modelName |-> "IncResV2", trainModel |-> FALSE,
                   startTrainingFromScratch |-> FALSE, useSkipConnections |-> FALSE,
                   tensorboardVisualization |-> FALSE]
    /\ sFiles = [pretrained |-> FALSE, outputModelDir |-> "absent", logsDir |-> FALSE]
    /\ assigned = {} /\ sRaised = "none"
    /\ sPc = "idle"

ShapeIdle ==
    /\ hOptions = [debug |-> FALSE, displayStep |-> 1]
    /\ hNumFiles = 1 /\ hPos = 0 /\ hStep = 0 /\ hEpIdx = 0
    /\ predShape = <<>> /\ gtShape = <<>>
    /\ lossComputed = FALSE /\ hRaised = "none"
    /\ hPc = "idle"

ReaderIdle ==
    /\ readerOptions = [batchSize |-> 1, trainingEpochs |-> 0, randomFetch |-> FALSE]
    /\ imageList = <<>> /\ currentIndex = 0 /\ totalEpochs = 0 /\ totalImages = 0
    /\ indices = <<>> /\ trainCalls = 0 /\ returned = "nothing" /\ restoredSteps = -1
    /\ readerPc = "idle"

\* The idle values of the later specifications, but for the one named g.
AuxIdleExcept(g) ==
    /\ (g = "pipe" \/ PipeIdle)
    /\ (g = "aug" \/ AugIdle)
    /\ (g = "resize" \/ ResizeIdle)
    /\ (g = "start" \/ StartIdle)
    /\ (g = "shape" \/ ShapeIdle)
    /\ (g = "reader" \/ ReaderIdle)

AuxIdle == AuxIdleExcept("none")

FirstIdle == RunIdle /\ LoadIdle /\ LossIdle /\ WriteIdle

(***************************************************************************)
(* The run: trainer_fcn.py from `if options.trainModel:` to the end.       *)
(*                                                                         *)
(* The graph has been built: every manifest has at least one entry (an     *)
(* empty manifest makes loadDataset fail, see LoadBuild), the iterators    *)
(* exist and none is initialised.  Every session.run of the loops fetches  *)
(* a tensor that depends on inputBatchImageNames / inputBatchImages /      *)
(* inputBatchMasks, so each run executes get_next once on the iterator the *)
(* placeholder selects (lines 335-337) and consumes one batch (one example *)
(* at batch size 1, line 80).  The pipeline hands the examples out in      *)
(* manifest order (options.shufflePerBatch is left at its default).        *)
(***************************************************************************)
Entries == {<<TRAIN, i>> : i \in 1..MaxTrainFiles} \cup
           {<<s, i>> : s \in {VAL, TEST}, i \in 1..MaxEvalFiles}

InitRun ==
    /\ options \in [trainModel : BOOLEAN, testModel : BOOLEAN, debug : BOOLEAN,
                    displayStep : 1..MaxDisplayStep, saveStep : 1..MaxSaveStep,
                    trainingEpochs : 0..MaxEpochs,
                    useCRFPostProcessing : BOOLEAN]
    \* useCRFPostProcessing is read by the testModel block only
    /\ options.useCRFPostProcessing => options.testModel
    /\ numFiles \in [Splits -> 1..MaxTrainFiles]
    /\ numFiles[VAL] <= MaxEvalFiles /\ numFiles[TEST] <= MaxEvalFiles
    \* at most one entry of the manifests names a file that cannot be decoded
    /\ bad \in {{}} \cup {{e} : e \in {x \in Entries : x[2] <= numFiles[x[1]]}}
    \* the checkpoint on disk is read by the testModel block only; a training
    \* run overwrites it before that block runs
    /\ ckptOnDisk \in BOOLEAN
    /\ ckptOnDisk => (options.testModel /\ ~options.trainModel)
    /\ pc = "start"
    /\ raised = "none"
    /\ iterPos = [s \in Splits |-> 0]
    /\ initCount = [s \in Splits |-> 0]
    /\ epoch = 0 /\ step = 0 /\ globalStep = 0 /\ iterations = 0 /\ epIdx = 0
    /\ params = 0 /\ epochGrads = <<>> /\ epochSaves = 0 /\ finalSaves = 0
    /\ traversals = [s \in Splits |-> 0]
    /\ written = [s \in Splits |-> <<>>]

Init == InitRun /\ LoadIdle /\ LossIdle /\ WriteIdle /\ AuxIdle

\* The iterator of split s has handed out its last element.
ExhaustedOffByOne(s) == iterPos[s] + 1 >= numFiles[s]
Exhausted(s) == iterPos[s] >= numFiles[s]

\* The example the next get_next of split s returns (1-based manifest index).
Fetched(s) == iterPos[s] + 1

\* The outcome of one session.run whose fetches depend on get_next of split s.
SessRun(s) ==
    IF Exhausted(s) THEN "OutOfRangeError"
    ELSE IF <<s, Fetched(s)>> \in bad THEN "InvalidArgumentError"
    ELSE "ok"

\* The iterator position after that run.
Advance(s) == [iterPos EXCEPT ![s] = IF Exhausted(s) THEN @ ELSE @ + 1]

\* `except tf.errors.OutOfRangeError:` catches exception exc.
HandlesNothing(exc) == FALSE
Handles(exc) == exc = "OutOfRangeError"

\* The fetches of the session.run calls of the loops.
DebugFetches == {"predictedMask", "inputBatchMasks"}
EndPointFetches == {"endPoints"}
TrainFetches == {"applyGradients"}
LossFetches == {"inputBatchImageNames", "inputBatchImages", "loss", "predictedMask"}
TestModelFetches == LossFetches \cup {"predictedLogits"}

\* The model parameters after a session.run of the given fetches: only the
\* op applyGradients assigns to variables (lines 395-403); the encoder runs
\* with is_training=False and the graph has no other update op.
ParamsAfterAnyLoss(fetches, ok) ==
    IF ok /\ fetches \cap {"applyGradients", "loss"} # {} THEN params + 1 ELSE params

ParamsAfterRun(fetches, ok) ==
    IF ok /\ "applyGradients" \in fetches THEN params + 1 ELSE params

\* line 507
DisplayDueAfterIncrement == (step + 1) % options.displayStep = 0

DisplayDue == step % options.displayStep = 0

\* sess.run(<split>Iterator.initializer)
Initializer(s) ==
    /\ iterPos' = [iterPos EXCEPT ![s] = 0]
    /\ initCount' = [initCount EXCEPT ![s] = @ + 1]

\* saver.save(sess, outputFileName)
SaverSave == ckptOnDisk' = TRUE

\* One session.run inside the training loop's try block; `next` is where the
\* script continues when the run returns.
TrainPull(next) ==
    LET r == SessRun(TRAIN) IN
    /\ iterPos' = Advance(TRAIN)
    /\ IF r = "ok"
         THEN pc' = next /\ UNCHANGED <<raised, traversals>>
         ELSE IF Handles(r)
           THEN /\ pc' = "trainEnd"
                /\ traversals' = [traversals EXCEPT ![TRAIN] = @ + 1]
                /\ UNCHANGED raised
           ELSE pc' = "aborted" /\ raised' = r /\ UNCHANGED traversals

\* lines 434, 592: which block runs first
Start ==
    /\ pc = "start"
    /\ pc' = IF options.trainModel THEN "epoch"
             ELSE IF options.testModel THEN "testModel" ELSE "exit"
    /\ UNCHANGED <<notRun, options, numFiles, bad, ckptOnDisk, raised, iterPos, initCount,
                   epoch, step, globalStep, iterations, epIdx, params, epochGrads,
                   epochSaves, finalSaves, traversals, written>>

\* lines 476-481: the head of `for epoch in range(options.trainingEpochs)`
ForEpoch ==
    /\ pc = "epoch"
    /\ IF epoch < options.trainingEpochs
         THEN /\ Initializer(TRAIN)
              /\ step' = 0
              /\ epochGrads' = <<>>
              /\ epochSaves' = 0
              /\ pc' = "loop"
         ELSE /\ pc' = "finalSave"
              /\ UNCHANGED <<iterPos, initCount, step, epochGrads, epochSaves>>
    /\ UNCHANGED <<notRun, options, numFiles, bad, ckptOnDisk, raised, epoch, globalStep,
                   iterations, epIdx, params, finalSaves, traversals, written>>

\* lines 484-493: the debug fetch of [predictedMask, inputBatchMasks]
DebugPull ==
    /\ pc = "loop" /\ options.debug
    /\ TrainPull("endPoints")
    /\ params' = ParamsAfterRun(DebugFetches, SessRun(TRAIN) = "ok")
    /\ epIdx' = 0
    /\ UNCHANGED <<notRun, options, numFiles, bad, ckptOnDisk, initCount, epoch, step,
                   globalStep, iterations, epochGrads, epochSaves,
                   finalSaves, written>>

\* lines 496-498: one fetch of the debug loop over the end points
EndPointPull ==
    /\ pc = "endPoints"
    /\ TrainPull(IF epIdx + 1 = NumEndPoints THEN "grad" ELSE "endPoints")
    /\ params' = ParamsAfterRun(EndPointFetches, SessRun(TRAIN) = "ok")
    /\ epIdx' = IF SessRun(TRAIN) = "ok" THEN epIdx + 1 ELSE epIdx
    /\ UNCHANGED <<notRun, options, numFiles, bad, ckptOnDisk, initCount, epoch, step,
                   globalStep, iterations, epochGrads, epochSaves,
                   finalSaves, written>>

\* lines 500-507 (and 515-516 when the display test fails): sess.run(applyGradients)
ApplyGradients ==
    /\ pc = IF options.debug THEN "grad" ELSE "loop"
    /\ LET ok == SessRun(TRAIN) = "ok"
           display == DisplayDue
       IN  /\ TrainPull(IF display THEN "display" ELSE "loop")
           /\ params' = ParamsAfterRun(TrainFetches, ok)
           /\ epochGrads' = IF ok THEN Append(epochGrads, Fetched(TRAIN)) ELSE epochGrads
           /\ step' = IF ok /\ ~display THEN step + 1 ELSE step
           /\ globalStep' = IF ok /\ ~display THEN globalStep + 1 ELSE globalStep
    /\ UNCHANGED <<notRun, options, numFiles, bad, ckptOnDisk, initCount, epoch, iterations,
                   epIdx, epochSaves, finalSaves, written>>

\* lines 507-516: the fetch of the loss for display, the image written, step += 1
DisplayPull ==
    /\ pc = "display"
    /\ LET ok == SessRun(TRAIN) = "ok"
       IN  /\ TrainPull("loop")
           /\ written' = IF ok
                THEN [written EXCEPT ![TRAIN] =
                        Append(@, [ex |-> Fetched(TRAIN), append |-> ""])]
                ELSE written
           /\ params' = ParamsAfterRun(LossFetches, ok)
           /\ step' = IF ok THEN step + 1 ELSE step
           /\ globalStep' = IF ok THEN globalStep + 1 ELSE globalStep
    /\ UNCHANGED <<notRun, options, numFiles, bad, ckptOnDisk, initCount, epoch, iterations,
                   epIdx, epochGrads, epochSaves, finalSaves>>

\* lines 518-530: the except clause, the save test, the start of validation
TrainEnd ==
    /\ pc = "trainEnd"
    /\ IF step % options.saveStep = 0
         THEN SaverSave /\ epochSaves' = epochSaves + 1
         ELSE UNCHANGED <<ckptOnDisk, epochSaves>>
    /\ Initializer(VAL)
    /\ iterations' = 0
    /\ pc' = "val"
    /\ UNCHANGED <<notRun, options, numFiles, bad, raised, epoch, step, globalStep, epIdx,
                   params, epochGrads, finalSaves, traversals, written>>

\* One iteration of an evaluation loop over split s (lines 532-543, 573-584):
\* the fetch, the image written, iterations += 1, or the except clause.
EvalPull(s, here, end) ==
    /\ pc = here
    /\ LET r == SessRun(s) IN
       /\ iterPos' = Advance(s)
       /\ IF r = "ok"
            THEN /\ written' = [written EXCEPT ![s] =
                                  Append(@, [ex |-> Fetched(s), append |-> ""])]
                 /\ iterations' = iterations + 1
                 /\ UNCHANGED <<pc, raised, traversals>>
            ELSE IF Handles(r)
              THEN /\ pc' = end
                   /\ traversals' = [traversals EXCEPT ![s] = @ + 1]
                   /\ UNCHANGED <<raised, written, iterations>>
              ELSE /\ pc' = "aborted" /\ raised' = r
                   /\ UNCHANGED <<traversals, written, iterations>>
       /\ params' = ParamsAfterRun(LossFetches, r = "ok")
    /\ UNCHANGED <<notRun, options, numFiles, bad, ckptOnDisk, initCount, epoch, step,
                   globalStep, epIdx, epochGrads, epochSaves, finalSaves>>

\* The division `average /= iterations` after an evaluation loop.
EvalEnd(here, next) ==
    /\ pc = here
    /\ IF iterations = 0
         THEN pc' = "aborted" /\ raised' = "ZeroDivisionError"
         ELSE pc' = next /\ UNCHANGED raised

\* lines 532-543
ValPull == EvalPull(VAL, "val", "valEnd")

\* lines 545-546 and the step of the for loop
ValEnd ==
    /\ EvalEnd("valEnd", "epoch")
    /\ epoch' = IF iterations = 0 THEN epoch ELSE epoch + 1
    /\ UNCHANGED <<notRun, options, numFiles, bad, ckptOnDisk, iterPos, initCount, step,
                   globalStep, iterations, epIdx, params, epochGrads, epochSaves,
                   finalSaves, traversals, written>>

\* lines 563-571: the final save and the start of the test pass
FinalSave ==
    /\ pc = "finalSave"
    /\ SaverSave
    /\ finalSaves' = finalSaves + 1
    /\ Initializer(TEST)
    /\ iterations' = 0
    /\ pc' = "test"
    /\ UNCHANGED <<notRun, options, numFiles, bad, raised, epoch, step, globalStep, epIdx,
                   params, epochGrads, epochSaves, traversals, written>>

\* lines 573-584
TestPull == EvalPull(TEST, "test", "testEnd")

\* lines 586-592
TestEnd ==
    /\ EvalEnd("testEnd", IF options.testModel THEN "testModel" ELSE "exit")
    /\ UNCHANGED <<notRun, options, numFiles, bad, ckptOnDisk, iterPos, initCount, epoch,
                   step, globalStep, iterations, epIdx, params, epochGrads,
                   epochSaves, finalSaves, traversals, written>>

\* lines 592-612: the output directory is emptied, the checkpoint restored.
\* The restore loads the parameters the checkpoint holds into a new session;
\* after a training run they are those of the final save, which no gradient
\* step follows.
TestModel ==
    /\ pc = "testModel"
    /\ written' = [written EXCEPT ![TEST] = <<>>]
    /\ IF ckptOnDisk
         THEN /\ Initializer(TEST)
              /\ iterations' = 0
              /\ pc' = "testModelLoop"
              /\ UNCHANGED raised
         ELSE /\ pc' = "aborted" /\ raised' = "NotFoundError"
              /\ UNCHANGED <<iterPos, initCount, iterations>>
    /\ UNCHANGED <<notRun, options, numFiles, bad, ckptOnDisk, epoch, step, globalStep,
                   epIdx, params, epochGrads, epochSaves, finalSaves, traversals>>

\* line 615: five tensors are fetched and the target list has four targets
\* (`predictedSegMask. predictedSegLogits` is one attribute target).
NumFetches == 5
NumTargets == 4

\* The images one iteration of the testModel loop writes (lines 618, 639).
TestModelWrites(ex) ==
    <<[ex |-> ex, append |-> ""]>> \o
    (IF options.useCRFPostProcessing THEN <<[ex |-> ex, append |-> "-crf"]>> ELSE <<>>)

\* lines 613-651: one iteration of the testModel loop, or its except clause
\* followed by the division and the end of the script
TestModelLoop ==
    /\ pc = "testModelLoop"
    /\ LET r == SessRun(TEST) IN
       /\ iterPos' = Advance(TEST)
       /\ IF r = "ok"
            THEN IF NumFetches # NumTargets
              THEN /\ pc' = "aborted" /\ raised' = "ValueError"
                   /\ UNCHANGED <<written, iterations, traversals>>
              ELSE /\ written' = [written EXCEPT ![TEST] = @ \o TestModelWrites(Fetched(TEST))]
                   /\ iterations' = iterations + 1
                   /\ UNCHANGED <<pc, raised, traversals>>
            ELSE IF Handles(r)
              THEN /\ traversals' = [traversals EXCEPT ![TEST] = @ + 1]
                   /\ IF iterations = 0
                        THEN pc' = "aborted" /\ raised' = "ZeroDivisionError"
                        ELSE pc' = "exit" /\ UNCHANGED raised
                   /\ UNCHANGED <<written, iterations>>
              ELSE /\ pc' = "aborted" /\ raised' = r
                   /\ UNCHANGED <<written, iterations, traversals>>
       /\ params' = ParamsAfterRun(TestModelFetches, r = "ok")
    /\ UNCHANGED <<notRun, options, numFiles, bad, ckptOnDisk, initCount, epoch, step,
                   globalStep, epIdx, epochGrads, epochSaves, finalSaves>>

Next ==
    \/ Start \/ ForEpoch \/ DebugPull \/ EndPointPull \/ ApplyGradients
    \/ DisplayPull \/ TrainEnd \/ ValPull \/ ValEnd \/ FinalSave \/ TestPull
    \/ TestEnd \/ TestModel \/ TestModelLoop

Spec == Init /\ [][Next]_vars

FairSpec == Spec /\ WF_vars(Next)

\* The positions of the script at which the next step is a session.run that
\* does not fetch applyGradients.
AtOtherPull ==
    \/ pc \in {"endPoints", "display", "val", "test", "testModelLoop"}
    \/ pc = "loop" /\ options.debug

\* C15: the model parameters change only in a step that runs applyGradients,
\* which consumes one train example; the debug fetches, the display fetch
\* and the fetches of the validation and test loops leave them unchanged.
C15_OnlyOptimizerChangesParams ==
    [][ /\ params' # params =>
              /\ pc = (IF options.debug THEN "grad" ELSE "loop")
              /\ params' = params + 1
              /\ epochGrads' = Append(epochGrads, iterPos'[TRAIN])
        /\ AtOtherPull => params' = params ]_vars

\* C15 witness: a debug run has made a gradient step after its debug and
\* end-point fetches, and has then gone through the validation and test
\* fetches, each of which wrote an image.
C15_Witness ==
    /\ options.debug /\ params = 1
    /\ pc = "testEnd"
    /\ written[VAL] # <<>> /\ written[TEST] # <<>>

\* C19: the display fetch runs exactly on the iterations whose step is a
\* multiple of displayStep, after the gradient step of the iteration.  It is
\* a second pull of the train split: the image written is that of the example
\* after the one the gradient step used, and that example is consumed with no
\* gradient step on it.  When the second pull hits the end of the split, the
\* epoch ends with the gradient step just applied counted neither in step nor
\* in globalStep.
C19_DisplayIsSecondPull ==
    /\ [](pc = "display" =>
              /\ step % options.displayStep = 0
              /\ Len(epochGrads) = step + 1
              /\ iterPos[TRAIN] = epochGrads[Len(epochGrads)])
    /\ [][ /\ (pc = (IF options.debug THEN "grad" ELSE "loop") /\ params' # params) =>
                 pc' = (IF step % options.displayStep = 0 THEN "display" ELSE "loop")
           /\ (pc = "display" /\ pc' = "loop") =>
                 /\ written'[TRAIN] = Append(written[TRAIN],
                        [ex |-> epochGrads[Len(epochGrads)] + 1, append |-> ""])
                 /\ iterPos'[TRAIN] = iterPos[TRAIN] + 1
                 /\ params' = params /\ epochGrads' = epochGrads
                 /\ step' = step + 1 /\ globalStep' = globalStep + 1
           /\ (pc = "display" /\ pc' = "trainEnd") =>
                 /\ iterPos[TRAIN] = numFiles[TRAIN]
                 /\ params' = params /\ epochGrads' = epochGrads
                 /\ written' = written
                 /\ step' = step /\ globalStep' = globalStep
                 /\ Len(epochGrads') = step' + 1 ]_vars

\* C19 witness: an epoch has ended on a display fetch that hit the end of the
\* split, after an earlier display fetch of the run wrote its image: one
\* gradient step more was applied than step counts.
C19_Witness ==
    /\ pc = "trainEnd"
    /\ Len(epochGrads) = step + 1 /\ step >= 1
    /\ written[TRAIN] # <<>>
    /\ globalStep < params

(***************************************************************************)
(* Properties of the run                                                   *)
(***************************************************************************)

\* C1: when the end-of-split condition ends a training epoch over a manifest
\* of K entries, exactly K gradient steps were performed in that epoch, one per
\* manifest entry, whatever displayStep and debug are.
C1_EpochGradientSteps ==
    pc = "trainEnd" =>
        /\ Len(epochGrads) = numFiles[TRAIN]
        /\ \A i \in 1..Len(epochGrads) : epochGrads[i] = i

\* C2: a testModel run over a readable test manifest of T entries (and with a
\* checkpoint to restore) ends normally, having counted T iterations and
\* written one image per example, plus one '-crf' image per example when CRF
\* post-processing is enabled.
C2_TestModeWritesAll ==
    (options.testModel /\ bad = {} /\ ckptOnDisk /\ pc \in {"exit", "aborted"}) =>
        /\ pc = "exit"
        /\ iterations = numFiles[TEST]
        /\ Len(written[TEST]) =
             numFiles[TEST] * (IF options.useCRFPostProcessing THEN 2 ELSE 1)
        /\ \A i \in 1..numFiles[TEST] :
             \E j \in 1..Len(written[TEST]) :
                written[TEST][j] = [ex |-> i, append |-> ""]

\* C6: when the validation pass of an epoch ends on end-of-split, it has pulled
\* each of the V validation examples once, counted V iterations and made exactly
\* V writeMaskToImage calls into the validation directory, one per example, in
\* manifest order; while the pass runs, pulls, iterations and images agree.
C6_ValidationWritesEach ==
    LET V == numFiles[VAL] IN
    /\ pc = "val" =>
          /\ iterations = iterPos[VAL]
          /\ Len(written[VAL]) = epoch * V + iterations
    /\ pc = "valEnd" =>
          /\ iterations = V
          /\ iterPos[VAL] = V
          /\ Len(written[VAL]) = (epoch + 1) * V
          /\ \A i \in 1..V : written[VAL][epoch * V + i] = [ex |-> i, append |-> ""]

\* C6 witness: the validation pass of the second epoch has ended over two examples.
C6_Witness == pc = "valEnd" /\ numFiles[VAL] = 2 /\ epoch = 1

\* C7: by the end of each epoch at least one save has been made for every
\* saveStep training steps performed in it, and a completed training run has
\* made the final save.
C7_SaveEverySaveStep ==
    /\ pc = "val" => epochSaves >= step \div options.saveStep
    /\ (options.trainModel /\ pc = "exit") => finalSaves = 1

\* C8 (state part): no run is ended by the end-of-split condition or by what
\* follows it; each epoch initialises the train iterator once and traverses the
\* split to its end; each traversal is followed by a validation pass; the
\* final save and the test pass come after trainingEpochs such epochs.
EndOfSplitIsLocal ==
    LET E == options.trainingEpochs IN
    /\ raised \notin {"OutOfRangeError", "ZeroDivisionError"}
    /\ raised = "InvalidArgumentError" => bad # {}
    /\ pc \in {"loop", "endPoints", "grad", "display"} =>
          /\ epoch < E
          /\ initCount[TRAIN] = epoch + 1
          /\ traversals[TRAIN] = epoch /\ traversals[VAL] = epoch
    /\ pc = "trainEnd" =>
          /\ traversals[TRAIN] = epoch + 1
          /\ iterPos[TRAIN] = numFiles[TRAIN]
    /\ pc \in {"val", "valEnd"} =>
          /\ initCount[VAL] = epoch + 1
          /\ traversals[TRAIN] = epoch + 1
          /\ traversals[VAL] = IF pc = "val" THEN epoch ELSE epoch + 1
    /\ pc \in {"finalSave", "test", "testEnd"} =>
          /\ epoch = E
          /\ initCount[TRAIN] = E /\ traversals[TRAIN] = E
          /\ initCount[VAL] = E /\ traversals[VAL] = E
          /\ finalSaves = IF pc = "finalSave" THEN 0 ELSE 1
          /\ initCount[TEST] = IF pc = "finalSave" THEN 0 ELSE 1
    /\ pc = "testEnd" => iterPos[TEST] = numFiles[TEST]

\* C8: end-of-split ends only the inner loop and never the process: the state
\* part above always holds, and a training run whose manifests are readable
\* goes through all its epochs and reaches the end of the test pass that
\* follows the final save.
C8_EndOfSplitEndsOnlyInnerLoop ==
    /\ []EndOfSplitIsLocal
    /\ (pc = "start" /\ options.trainModel /\ bad = {}) ~>
          (pc = "testEnd" /\ finalSaves = 1
             /\ traversals[TRAIN] = options.trainingEpochs
             /\ traversals[VAL] = options.trainingEpochs)

\* C8 witness: a run of two epochs has ended its test pass.
C8_Witness ==
    /\ pc = "testEnd" /\ options.trainingEpochs = 2
    /\ traversals[TRAIN] = 2 /\ traversals[VAL] = 2 /\ finalSaves = 1

\* C9: a training entry that cannot be decoded aborts only the step that
\* pulled it: the process is never ended by the decode error of a train pull.
C9_DecodeErrorAbortsOnlyStep ==
    ~(/\ pc = "aborted" /\ raised = "InvalidArgumentError"
      /\ \E e \in bad : e[1] = TRAIN)

(***************************************************************************)
(* loadDataset (lines 216-249) on one manifest file.  A file is a sequence *)
(* of characters; "a" stands for any character of a path, " " for a blank. *)
(***************************************************************************)
MaxFileLen == 7

Chars == {"a", ",", " ", "\n"}
Whitespace == {" ", "\n"}

Min(S) == CHOOSE x \in S : \A y \in S : x <= y
Max(S) == CHOOSE x \in S : \A y \in S : x >= y

\* f.readlines(): the lines of the file, each with its line end
RECURSIVE ReadLines(_)
ReadLines(c) ==
    IF c = <<>> THEN <<>>
    ELSE LET nl == {i \in 1..Len(c) : c[i] = "\n"}
             e == IF nl = {} THEN Len(c) ELSE Min(nl)
         IN  <<SubSeq(c, 1, e)>> \o ReadLines(SubSeq(c, e + 1, Len(c)))

RECURSIVE LStrip(_)
LStrip(str) ==
    IF str # <<>> /\ Head(str) \in Whitespace THEN LStrip(Tail(str)) ELSE str

RECURSIVE RStrip(_)
RStrip(str) ==
    IF str # <<>> /\ str[Len(str)] \in Whitespace
      THEN RStrip(SubSeq(str, 1, Len(str) - 1)) ELSE str

\* str.strip()
StripLeftOnly(str) == LStrip(str)
Strip(str) == RStrip(LStrip(str))

\* str.split(sep): the fields between the separators
RECURSIVE Split(_, _)
Split(str, sep) ==
    LET at == {i \in 1..Len(str) : str[i] = sep} IN
    IF at = {} THEN <<str>>
    ELSE <<SubSeq(str, 1, Min(at) - 1)>> \o Split(SubSeq(str, Min(at) + 1, Len(str)), sep)

InitLoad ==
    /\ manifest \in UNION {[1..n -> Chars] : n \in 0..MaxFileLen}
    /\ imageFileNames = <<>> /\ lineIdx = 0
    /\ originalImageNames = <<>> /\ maskImageNames = <<>>
    /\ loadPc = "open"
    /\ RunIdle /\ LossIdle /\ WriteIdle /\ AuxIdle

\* lines 219-222
LoadOpen ==
    /\ loadPc = "open"
    /\ imageFileNames' = ReadLines(manifest)
    /\ originalImageNames' = <<>>
    /\ maskImageNames' = <<>>
    /\ lineIdx' = 0
    /\ loadPc' = "loop"
    /\ UNCHANGED <<manifest, notLoad>>

\* lines 223-227: one iteration of the loop over the lines
LoadLine ==
    /\ loadPc = "loop" /\ lineIdx < Len(imageFileNames)
    /\ LET imName == Split(Strip(imageFileNames[lineIdx + 1]), ",") IN
       /\ originalImageNames' = Append(originalImageNames, imName[1])
       /\ IF Len(imName) >= 2
            THEN /\ maskImageNames' = Append(maskImageNames, imName[2])
                 /\ lineIdx' = lineIdx + 1
                 /\ UNCHANGED loadPc
            ELSE /\ loadPc' = "IndexError"
                 /\ UNCHANGED <<maskImageNames, lineIdx>>
    /\ UNCHANGED <<manifest, imageFileNames, notLoad>>

\* lines 229-249: the constants and the dataset.  tf.constant of an empty list
\* is a float32 tensor, which parseFunction's tf.read_file rejects when
\* dataset.map traces it.
LoadBuild ==
    /\ loadPc = "loop" /\ lineIdx = Len(imageFileNames)
    /\ loadPc' = IF Len(originalImageNames) = 0 THEN "TypeError" ELSE "built"
    /\ UNCHANGED <<manifest, imageFileNames, lineIdx, originalImageNames,
                   maskImageNames, notLoad>>

NextLoad == LoadOpen \/ LoadLine \/ LoadBuild

SpecLoad == InitLoad /\ [][NextLoad]_vars

\* A line of the form imagePath,maskPath: exactly one comma.
WellFormed(line) == Cardinality({i \in 1..Len(line) : line[i] = ","}) = 1

\* name,mask is line without the blanks and the line end around it.
IsEntryOf(name, mask, line) ==
    \E l, r \in 0..Len(line) :
        /\ l + r <= Len(line)
        /\ \A i \in 1..l : line[i] \in Whitespace
        /\ \A i \in (Len(line) - r + 1)..Len(line) : line[i] \in Whitespace
        /\ SubSeq(line, l + 1, Len(line) - r) = name \o <<",">> \o mask
        /\ name # <<>> => Head(name) \notin Whitespace
        /\ mask # <<>> => mask[Len(mask)] \notin Whitespace
        /\ \A i \in 1..Len(name) : name[i] # ","
        /\ \A i \in 1..Len(mask) : mask[i] # ","

\* The file's lines: they make up the file, and each ends at its first line end.
IsLinesOf(lines, file) ==
    /\ Len(file) = 0 <=> Len(lines) = 0
    /\ \A i \in 1..Len(lines) :
          /\ lines[i] # <<>>
          /\ \A j \in 1..(Len(lines[i]) - 1) : lines[i][j] # "\n"
          /\ i < Len(lines) => lines[i][Len(lines[i])] = "\n"
    /\ \E cut \in [0..Len(lines) -> 0..Len(file)] :
          /\ cut[0] = 0 /\ cut[Len(lines)] = Len(file)
          /\ \A i \in 1..Len(lines) :
                /\ cut[i - 1] < cut[i]
                /\ lines[i] = SubSeq(file, cut[i - 1] + 1, cut[i])

\* C10: for a manifest whose K lines all have the form imagePath,maskPath,
\* the two lists have one entry per handled line, and entry i of the image list
\* and entry i of the mask list are the first and the second field of line i of
\* the file; when the lists are built each has length K.
C10_ListsAligned ==
    (loadPc \in {"loop", "built"}
        /\ \A i \in 1..Len(imageFileNames) : WellFormed(imageFileNames[i])) =>
        /\ IsLinesOf(imageFileNames, manifest)
        /\ Len(originalImageNames) = lineIdx
        /\ Len(maskImageNames) = lineIdx
        /\ \A i \in 1..lineIdx :
              IsEntryOf(originalImageNames[i], maskImageNames[i], imageFileNames[i])
        /\ loadPc = "built" => lineIdx = Len(imageFileNames)

\* C10 witness: the lists of a manifest of two lines are built; the first line
\* starts with a blank, ends with its line end and has two non-empty fields.
C10_Witness ==
    /\ loadPc = "built" /\ Len(imageFileNames) = 2
    /\ \A i \in 1..2 : WellFormed(imageFileNames[i])
    /\ imageFileNames[1][1] = " "
    /\ originalImageNames[1] # <<>> /\ maskImageNames[1] # <<>>
    /\ originalImageNames[2] # maskImageNames[2]
    /\ Len(maskImageNames) = 2

\* C11: a manifest line that does not have exactly two comma-separated fields
\* (one field, an empty line, three fields or more) makes the loader fail at
\* that line: the loop never gets past it and no dataset is built from the
\* manifest.
C11_MalformedLineFails ==
    \A i \in 1..Len(imageFileNames) :
        ~WellFormed(imageFileNames[i]) => loadPc # "built" /\ lineIdx < i

(***************************************************************************)
(* The Loss block (lines 382-393) on one batch.  A batch is the sequence   *)
(* of its pixels' labels; pixelLoss[i] is the sparse softmax cross entropy *)
(* of pixel i before weighting, in units of the model (it is positive for  *)
(* every finite logit vector).                                             *)
(***************************************************************************)
numClasses == 3
ignoreLabel == 255
boundaryWeight == 10
\* LABELS (line 25): the label written for the boundary colour
BoundaryLabel == 2

MaxPixels == 3
MaxPixelLoss == 2

MaskLabels == (0..(numClasses - 1)) \cup {ignoreLabel}

InitLoss ==
    /\ inputMaskFlattened \in UNION {[1..n -> MaskLabels] : n \in 1..MaxPixels}
    /\ pixelLoss \in [1..Len(inputMaskFlattened) -> 1..MaxPixelLoss]
    /\ weights = 0 /\ crossEntropyLoss = "none"
    /\ lossPc = "weights"
    /\ RunIdle /\ LoadIdle /\ WriteIdle /\ AuxIdle

\* `tensor != number` (line 389) is evaluated by Python.  The script imports
\* tensorflow.contrib (line 11), which only the 1.x releases of TensorFlow
\* ship, and their tf.Tensor does not overload != for a graph tensor: Python
\* compares the identities of the two objects, and a Tensor is never the int.
PyNotEqual(tensor, number) == TRUE

\* tf.cast(<Python bool>, tf.float32): a scalar
CastFloat(b) == IF b THEN 1 ELSE 0

\* lines 389-390: weights is a scalar; tf.cond picks options.boundaryWeight
\* when that scalar equals 2
ComputeWeights ==
    /\ lossPc = "weights"
    /\ LET w == CastFloat(PyNotEqual(inputMaskFlattened, ignoreLabel)) IN
       weights' = IF w = 2 THEN boundaryWeight ELSE w
    /\ lossPc' = "loss"
    /\ UNCHANGED <<inputMaskFlattened, pixelLoss, crossEntropyLoss, notLoss>>

\* The weight tf.losses gives pixel i: the scalar, broadcast.
PixelWeight(i) == weights

RECURSIVE SumTo(_, _)
SumTo(f, n) == IF n = 0 THEN 0 ELSE f[n] + SumTo(f, n - 1)

\* tf.losses.sparse_softmax_cross_entropy with the default reduction
\* SUM_BY_NONZERO_WEIGHTS: <<sum of the weighted losses, number of non-zero weights>>
WeightedCrossEntropy ==
    LET n == Len(inputMaskFlattened)
        weighted == [i \in 1..n |-> PixelWeight(i) * pixelLoss[i]]
    IN  <<SumTo(weighted, n), Cardinality({i \in 1..n : PixelWeight(i) # 0})>>

\* line 391.  A label outside 0..numClasses-1 makes the cross-entropy kernel
\* raise InvalidArgumentError (CPU) or return NaN (GPU).
ComputeLoss ==
    /\ lossPc = "loss"
    /\ IF \A i \in 1..Len(inputMaskFlattened) : inputMaskFlattened[i] \in 0..(numClasses - 1)
         THEN crossEntropyLoss' = WeightedCrossEntropy
         ELSE crossEntropyLoss' \in {"InvalidArgumentError", "NaN"}
    /\ lossPc' = "done"
    /\ UNCHANGED <<inputMaskFlattened, pixelLoss, weights, notLoss>>

NextLoss == ComputeWeights \/ ComputeLoss

SpecLoss == InitLoss /\ [][NextLoss]_vars

\* C3: a pixel's loss weight is 0 exactly when its label is the ignore label,
\* and the weighted cross entropy of a batch that holds only the ignore label
\* is 0.
C3_IgnoredPixelsWeighZero ==
    LET n == Len(inputMaskFlattened) IN
    /\ lossPc \in {"loss", "done"} =>
          \A i \in 1..n : (PixelWeight(i) = 0) <=> (inputMaskFlattened[i] = ignoreLabel)
    /\ (lossPc = "done" /\ \A i \in 1..n : inputMaskFlattened[i] = ignoreLabel) =>
          (crossEntropyLoss \in Seq(Int) /\ crossEntropyLoss[1] = 0)

\* C4: a pixel whose label is the boundary class gets the weight boundaryWeight,
\* so that it adds boundaryWeight times its unweighted loss to the sum.
C4_BoundaryPixelsWeighW ==
    lossPc \in {"loss", "done"} =>
        \A i \in 1..Len(inputMaskFlattened) :
            inputMaskFlattened[i] = BoundaryLabel =>
                PixelWeight(i) * pixelLoss[i] = boundaryWeight * pixelLoss[i]

(***************************************************************************)
(* writeMaskToImage's output file name (lines 251-257) at each of its call *)
(* sites.  A path is a sequence of characters; a directory option and a    *)
(* literal of the claim are single tokens of such a sequence.              *)
(***************************************************************************)
MaxNameLen == 5

PathChars == {"a", "b", ".", "/"}

\* The call sites: the directory and the append argument each passes.
CallSites ==
    {[line |-> 513, split |-> TRAIN, append |-> <<>>],
     [line |-> 536, split |-> VAL, append |-> <<>>],
     [line |-> 577, split |-> TEST, append |-> <<>>],
     [line |-> 618, split |-> TEST, append |-> <<>>],
     [line |-> 639, split |-> TEST, append |-> <<"-", "c", "r", "f">>]}

\* options.trainImagesOutputDirectory, valImagesOutputDirectory, testImagesOutputDirectory
OutputDirectory(split) ==
    IF split = TRAIN THEN <<"outputImages_train">>
    ELSE IF split = VAL THEN <<"outputImages_val">>
    ELSE <<"outputImages_test">>

\* os.path.split(p)[1]: what follows the last slash
PathTail(p) ==
    LET at == {i \in 1..Len(p) : p[i] = "/"} IN
    IF at = {} THEN p ELSE SubSeq(p, Max(at) + 1, Len(p))

\* os.path.splitext(p) for a p without a slash: <<root, ext>>; the extension
\* starts at the last dot, unless only dots precede that dot
SplitExtFirstDot(p) ==
    LET dots == {i \in 1..Len(p) : p[i] = "."} IN
    IF dots = {} THEN <<p, <<>>>>
    ELSE <<SubSeq(p, 1, Min(dots) - 1), SubSeq(p, Min(dots), Len(p))>>
SplitExt(p) ==
    LET dots == {i \in 1..Len(p) : p[i] = "."} IN
    IF dots = {} THEN <<p, <<>>>>
    ELSE LET dotIndex == Max(dots) IN
         IF \E i \in 1..(dotIndex - 1) : p[i] # "."
           THEN <<SubSeq(p, 1, dotIndex - 1), SubSeq(p, dotIndex, Len(p))>>
           ELSE <<p, <<>>>>

\* os.path.join(a, b)
PathJoin(a, b) ==
    IF b # <<>> /\ Head(b) = "/" THEN b
    ELSE IF a = <<>> \/ a[Len(a)] = "/" THEN a \o b
    ELSE a \o <<"/">> \o b

\* lines 252-257
OutputFileName(directory, fileName, append) ==
    LET tail == PathTail(fileName)
        fileNameRoot == SplitExt(tail)[1]
        fileNameExt == SplitExt(tail)[2]
    IN  PathJoin(directory, fileNameRoot \o append \o fileNameExt)

\* An image path the pipeline could read: it names a file.
IsFilePath(p) ==
    /\ p # <<>> /\ p[Len(p)] # "/"
    /\ PathTail(p) \notin {<<".">>, <<".", ".">>}

InitWrite ==
    /\ wFileName \in {p \in UNION {[1..n -> PathChars] : n \in 1..MaxNameLen} : IsFilePath(p)}
    /\ wSite \in CallSites
    /\ outputFileName = <<>>
    /\ wPc = "call"
    /\ RunIdle /\ LoadIdle /\ LossIdle /\ AuxIdle

\* lines 251-272: the call; the image is written to outputFileName
WriteMaskToImage ==
    /\ wPc = "call"
    /\ outputFileName' = OutputFileName(OutputDirectory(wSite.split), wFileName, wSite.append)
    /\ wPc' = "written"
    /\ UNCHANGED <<wFileName, wSite, notWrite>>

NextWrite == WriteMaskToImage

SpecWrite == InitWrite /\ [][NextWrite]_vars

\* base is the base name of path: what follows its last slash.
IsBaseNameOf(base, path) ==
    \E h \in 0..Len(path) :
        /\ base = SubSeq(path, h + 1, Len(path))
        /\ \A i \in 1..Len(base) : base[i] # "/"
        /\ h > 0 => path[h] = "/"

\* ext is the extension of base: empty when no dot of base follows a character
\* that is not a dot, and else the last dot of base and what follows it.
IsExtensionOf(ext, base) ==
    LET k == Len(base) - Len(ext) IN
    /\ k >= 0 /\ ext = SubSeq(base, k + 1, Len(base))
    /\ IF \E i, j \in 1..Len(base) : i < j /\ base[i] # "." /\ base[j] = "."
         THEN /\ ext # <<>> /\ ext[1] = "."
              /\ \A i \in 2..Len(ext) : ext[i] # "."
         ELSE ext = <<>>

\* The split's name in the claimed file name.
SplitPrefix(split) ==
    IF split = TRAIN THEN "train_" ELSE IF split = VAL THEN "val_" ELSE "test_"

\* C5 as claimed: the image is written to <directory>/<split>_<root>_prob<ext>,
\* with the call's '-crf' suffix before or after _prob.
C5_SplitProbName ==
    wPc = "written" =>
        \E base \in {SubSeq(wFileName, h + 1, Len(wFileName)) : h \in 0..Len(wFileName)} :
        \E ext \in {SubSeq(base, k + 1, Len(base)) : k \in 0..Len(base)} :
            LET root == SubSeq(base, 1, Len(base) - Len(ext))
                dir == OutputDirectory(wSite.split) \o <<"/", SplitPrefix(wSite.split)>>
            IN  /\ IsBaseNameOf(base, wFileName)
                /\ IsExtensionOf(ext, base)
                /\ outputFileName \in
                     {dir \o root \o <<"_prob">> \o wSite.append \o ext,
                      dir \o root \o wSite.append \o <<"_prob">> \o ext}

\* C5 as amended: the image is written to <directory>/<root><append><ext>,
\* where <root><ext> is the base name of the example's image path, <ext> its
\* extension and <append> the call's suffix: empty at the train, validation and
\* test call sites, '-crf' at the CRF call site.  No split name and no _prob
\* are added.
C5_OutputNameIsBaseName ==
    wPc = "written" =>
        \E base \in {SubSeq(wFileName, h + 1, Len(wFileName)) : h \in 0..Len(wFileName)} :
        \E ext \in {SubSeq(base, k + 1, Len(base)) : k \in 0..Len(base)} :
            LET root == SubSeq(base, 1, Len(base) - Len(ext)) IN
            /\ IsBaseNameOf(base, wFileName)
            /\ IsExtensionOf(ext, base)
            /\ outputFileName =
                 OutputDirectory(wSite.split) \o <<"/">> \o root \o wSite.append \o ext
            /\ wSite.line # 639 => outputFileName = OutputDirectory(wSite.split) \o <<"/">> \o base

\* C5 witness: the CRF call has written the image of a path that has a
\* directory part and a base name with an extension.
C5_Witness ==
    /\ wPc = "written" /\ wSite.line = 639
    /\ \E i \in 2..Len(wFileName) : wFileName[i] = "/"
    /\ outputFileName[Len(outputFileName)] \in {"a", "b"}
    /\ outputFileName[Len(outputFileName) - 1] = "."

(***************************************************************************)
(* The input pipeline of one split: the dataset loadDataset builds (lines  *)
(* 236-249) and the get_next of its iterator.  An element is named by its  *)
(* position in the manifest.  Each map keeps up to numParallelLoaders      *)
(* calls in flight; the calls finish in any order, and the map hands their *)
(* results on in the order it started them.  The shuffle buffer holds      *)
(* numFiles elements and gives out any of them once it is full or its      *)
(* input has ended.  The batch size is 1 (line 80).                        *)
(***************************************************************************)
InitPipe ==
    /\ pOptions \in [shufflePerBatch : BOOLEAN, dataAugmentation : BOOLEAN,
                     numParallelLoaders : 1..MaxLoaders]
    /\ pNumFiles \in 1..MaxPipeFiles
    /\ pSource = 0 /\ pParse = <<>> /\ pAug = <<>>
    /\ pShuffle = {} /\ pOvertaken = FALSE /\ pulled = <<>>
    /\ pPc = "ready"
    /\ FirstIdle /\ AuxIdleExcept("pipe")

\* The calls of a map whose result it hands on next: every call but the
\* oldest waits for the calls started before it.
DeliverableAnyDone(calls) == {i \in 1..Len(calls) : calls[i].done}

Deliverable(calls) == IF calls # <<>> /\ calls[1].done THEN {1} ELSE {}

Remove(calls, i) == SubSeq(calls, 1, i - 1) \o SubSeq(calls, i + 1, Len(calls))

Overtakes(calls, i) == \E j \in 1..(i - 1) : ~calls[j].done

\* line 244
Shuffles == pOptions.shufflePerBatch

\* line 245
BufferSize == pNumFiles

\* The map that feeds the shuffle or the batch (lines 237-241).
Mapped == IF pOptions.dataAugmentation THEN pAug ELSE pParse

UpstreamEnd == pSource = pNumFiles /\ pParse = <<>> /\ pAug = <<>>

\* an element leaves the last map
TakeMapped(i) ==
    IF pOptions.dataAugmentation
        THEN pAug' = Remove(pAug, i) /\ UNCHANGED pParse
        ELSE pParse' = Remove(pParse, i) /\ UNCHANGED pAug

\* line 237: a worker starts parseFunction on the next manifest entry
ParseStart ==
    /\ pPc = "ready"
    /\ Len(pParse) < pOptions.numParallelLoaders
    /\ pSource < pNumFiles
    /\ pParse' = Append(pParse, [ex |-> pSource + 1, done |-> FALSE])
    /\ pSource' = pSource + 1
    /\ UNCHANGED <<pOptions, pNumFiles, pAug, pShuffle, pOvertaken, pulled, pPc, notPipe>>

\* line 237: a parseFunction call returns
ParseFinish ==
    /\ pPc = "ready"
    /\ \E i \in 1..Len(pParse) :
          /\ ~pParse[i].done
          /\ pParse' = [pParse EXCEPT ![i].done = TRUE]
          /\ pOvertaken' = (pOvertaken \/ Overtakes(pParse, i))
    /\ UNCHANGED <<pOptions, pNumFiles, pSource, pAug, pShuffle, pulled, pPc, notPipe>>

\* lines 240-241: a worker starts dataAugmentationFunction on the next parsed element
AugStart ==
    /\ pPc = "ready"
    /\ pOptions.dataAugmentation
    /\ Len(pAug) < pOptions.numParallelLoaders
    /\ \E i \in Deliverable(pParse) :
          /\ pAug' = Append(pAug, [ex |-> pParse[i].ex, done |-> FALSE])
          /\ pParse' = Remove(pParse, i)
    /\ UNCHANGED <<pOptions, pNumFiles, pSource, pShuffle, pOvertaken, pulled, pPc, notPipe>>

\* line 241: a dataAugmentationFunction call returns
AugFinish ==
    /\ pPc = "ready"
    /\ \E i \in 1..Len(pAug) :
          /\ ~pAug[i].done
          /\ pAug' = [pAug EXCEPT ![i].done = TRUE]
          /\ pOvertaken' = (pOvertaken \/ Overtakes(pAug, i))
    /\ UNCHANGED <<pOptions, pNumFiles, pSource, pParse, pShuffle, pulled, pPc, notPipe>>

\* lines 244-245: the shuffle buffer takes the next mapped element
ShuffleFill ==
    /\ pPc = "ready"
    /\ Shuffles
    /\ Cardinality(pShuffle) < BufferSize
    /\ \E i \in Deliverable(Mapped) :
          /\ pShuffle' = pShuffle \cup {Mapped[i].ex}
          /\ TakeMapped(i)
    /\ UNCHANGED <<pOptions, pNumFiles, pSource, pOvertaken, pulled, pPc, notPipe>>

\* lines 247, 336: get_next returns a batch of one element
GetNext ==
    /\ pPc = "ready"
    /\ IF Shuffles
         THEN /\ Cardinality(pShuffle) = BufferSize \/ UpstreamEnd
              /\ \E ex \in pShuffle :
                    /\ pulled' = Append(pulled, ex)
                    /\ pShuffle' = pShuffle \ {ex}
              /\ UNCHANGED <<pParse, pAug>>
         ELSE /\ \E i \in Deliverable(Mapped) :
                    /\ pulled' = Append(pulled, Mapped[i].ex)
                    /\ TakeMapped(i)
              /\ UNCHANGED pShuffle
    /\ UNCHANGED <<pOptions, pNumFiles, pSource, pOvertaken, pPc, notPipe>>

\* line 336: get_next on the exhausted dataset raises OutOfRangeError
GetNextEnd ==
    /\ pPc = "ready"
    /\ UpstreamEnd /\ pShuffle = {}
    /\ pPc' = "end"
    /\ UNCHANGED <<pOptions, pNumFiles, pSource, pParse, pAug, pShuffle, pOvertaken,
                   pulled, notPipe>>

\* lines 472, 530, 570: the iterator's initializer runs again and restarts
\* the dataset, whatever is in flight
PipeInitializer ==
    /\ pPc \in {"ready", "end"}
    /\ pulled # <<>> \/ pPc = "end"
    /\ pSource' = 0 /\ pParse' = <<>> /\ pAug' = <<>> /\ pShuffle' = {}
    /\ pulled' = <<>> /\ pPc' = "ready"
    /\ UNCHANGED <<pOptions, pNumFiles, pOvertaken, notPipe>>

NextPipe ==
    \/ ParseStart \/ ParseFinish \/ AugStart \/ AugFinish
    \/ ShuffleFill \/ GetNext \/ GetNextEnd \/ PipeInitializer

SpecPipe == InitPipe /\ [][NextPipe]_vars

\* C12: without a shuffle buffer the i-th pull after the initialisation
\* returns manifest entry i, whatever the order in which the parallel calls
\* of the maps finish.
C12_ManifestOrder ==
    ~pOptions.shufflePerBatch => \A i \in 1..Len(pulled) : pulled[i] = i

\* C12 witness: a split of three entries has been pulled to its end through
\* both maps without shuffling, and a call finished before an earlier one.
C12_Witness ==
    /\ ~pOptions.shufflePerBatch /\ pOptions.dataAugmentation
    /\ pOvertaken /\ pNumFiles = 3 /\ Len(pulled) = 3 /\ pPc = "end"

(***************************************************************************)
(* dataAugmentationFunction (lines 197-214) on one example.  A tensor is   *)
(* the sequence of its rows.  Every pixel carries src, the <<row, column>> *)
(* it had in the argument, so that a flip can be told from its absence on  *)
(* any image.  An image pixel has the value v of its largest channel and   *)
(* the value c of its smallest one, in units of 1/255; a mask pixel has    *)
(* its label.                                                              *)
(***************************************************************************)
\* line 212: 255.0
ClipMax == 65025
\* line 208: max_delta = 32.0 / 255.0
BrightnessMaxDelta == 32
\* line 209: lower = 0.5 and upper = 1.5, in quarters; the factors drawn here
SaturationFactors == {2, 4, 5}
BrightnessDeltas == {-BrightnessMaxDelta, 0, BrightnessMaxDelta - 1}
ImgValues == {0, 16, ClipMax}
MaskValues == {1, ignoreLabel}

Reverse(s) == [i \in 1..Len(s) |-> s[Len(s) + 1 - i]]

\* tf.image.flip_left_right / tf.image.flip_up_down
FlipLeftRight(t) == [r \in 1..Len(t) |-> Reverse(t[r])]
FlipUpDown(t) == Reverse(t)

\* lines 200, 205: the predicate of the image's tf.cond
ImgFlipPred(randomVar) == randomVar = 0

\* lines 201, 206: the predicate of the mask's tf.cond
MaskFlipPredInverted(randomVar) == randomVar = 1

MaskFlipPred(randomVar) == randomVar = 0

\* tf.image.adjust_brightness: delta is added to every channel
Brightness(p, delta) == [p EXCEPT !.v = @ + delta, !.c = @ + delta]

\* tf.image.adjust_saturation: the saturation (v - c) / v is scaled by
\* quarters / 4 and capped at 1; v stays.  A pixel without a positive v has
\* saturation 0.
Saturation(p, quarters) ==
    IF p.v <= 0 THEN p
    ELSE LET chroma == ((p.v - p.c) * quarters) \div 4
         IN [p EXCEPT !.c = p.v - (IF chroma > p.v THEN p.v ELSE chroma)]

ClipChannel(x) == IF x < 0 THEN 0 ELSE IF x > ClipMax THEN ClipMax ELSE x

\* tf.clip_by_value(img, 0.0, 255.0)
Clip(p) == [p EXCEPT !.v = ClipChannel(@), !.c = ClipChannel(@)]

\* the three colour operations on every pixel of an image
BrightnessAll(t, delta) ==
    [r \in 1..Len(t) |-> [c \in 1..Len(t[r]) |-> Brightness(t[r][c], delta)]]
SaturationAll(t, quarters) ==
    [r \in 1..Len(t) |-> [c \in 1..Len(t[r]) |-> Saturation(t[r][c], quarters)]]
ClipAll(t) == [r \in 1..Len(t) |-> [c \in 1..Len(t[r]) |-> Clip(t[r][c])]]

InitAug ==
    /\ \E h, w \in 1..MaxAugSide :
         \E value \in ImgValues, label \in [(1..h) \X (1..w) -> MaskValues] :
            aIn = [img  |-> [r \in 1..h |-> [c \in 1..w |->
                                [src |-> <<r, c>>, v |-> value, c |-> value \div 2]]],
                   mask |-> [r \in 1..h |-> [c \in 1..w |->
                                [src |-> <<r, c>>, label |-> label[<<r, c>>]]]]]
    /\ aImg = aIn.img /\ aMask = aIn.mask
    /\ randomVarLR = -1 /\ randomVarUD = -1
    /\ aPc = "flipLR"
    /\ FirstIdle /\ AuxIdleExcept("aug")

\* lines 198-201: one draw, read by the tf.cond of the image and by the
\* tf.cond of the mask
FlipLR ==
    /\ aPc = "flipLR"
    /\ \E randomVar \in {0, 1} :
          /\ randomVarLR' = randomVar
          /\ aImg' = IF ImgFlipPred(randomVar) THEN FlipLeftRight(aImg) ELSE aImg
          /\ aMask' = IF MaskFlipPred(randomVar) THEN FlipLeftRight(aMask) ELSE aMask
    /\ aPc' = "flipUD"
    /\ UNCHANGED <<aIn, randomVarUD, notAug>>

\* lines 203-206: a second draw
FlipUD ==
    /\ aPc = "flipUD"
    /\ \E randomVar \in {0, 1} :
          /\ randomVarUD' = randomVar
          /\ aImg' = IF ImgFlipPred(randomVar) THEN FlipUpDown(aImg) ELSE aImg
          /\ aMask' = IF MaskFlipPred(randomVar) THEN FlipUpDown(aMask) ELSE aMask
    /\ aPc' = "brightness"
    /\ UNCHANGED <<aIn, randomVarLR, notAug>>

\* line 208
RandomBrightness ==
    /\ aPc = "brightness"
    /\ \E delta \in BrightnessDeltas :
          aImg' = BrightnessAll(aImg, delta)
    /\ aPc' = "saturation"
    /\ UNCHANGED <<aIn, aMask, randomVarLR, randomVarUD, notAug>>

\* line 209
RandomSaturation ==
    /\ aPc = "saturation"
    /\ \E quarters \in SaturationFactors :
          aImg' = SaturationAll(aImg, quarters)
    /\ aPc' = "clip"
    /\ UNCHANGED <<aIn, aMask, randomVarLR, randomVarUD, notAug>>

\* lines 212-214
ClipByValue ==
    /\ aPc = "clip"
    /\ aImg' = ClipAll(aImg)
    /\ aPc' = "done"
    /\ UNCHANGED <<aIn, aMask, randomVarLR, randomVarUD, notAug>>

NextAug == FlipLR \/ FlipUD \/ RandomBrightness \/ RandomSaturation \/ ClipByValue

SpecAug == InitAug /\ [][NextAug]_vars

\* t0 mirrored left-right if lr and up-down if ud
Mirrored(t0, lr, ud) ==
    [r \in 1..Len(t0) |-> [c \in 1..Len(t0[1]) |->
        t0[IF ud THEN Len(t0) + 1 - r ELSE r][IF lr THEN Len(t0[1]) + 1 - c ELSE c]]]

\* C13: at every point of the augmentation the image and the mask have gone
\* through the same flips (each position holds the image pixel and the mask
\* pixel of one source position), and the mask is the argument mask under
\* those flips with every label unchanged: brightness, saturation and
\* clipping leave it alone.
C13_FlipsAgree ==
    aPc # "idle" =>
        /\ Len(aImg) = Len(aMask)
        /\ \A r \in 1..Len(aImg) :
              /\ Len(aImg[r]) = Len(aMask[r])
              /\ \A c \in 1..Len(aImg[r]) : aImg[r][c].src = aMask[r][c].src
        /\ \E lr, ud \in BOOLEAN :
              /\ aMask = Mirrored(aIn.mask, lr, ud)
              /\ aPc = "flipLR" => ~lr
              /\ aPc \in {"flipLR", "flipUD"} => ~ud

\* C13 witness: the augmentation of a 2 x 2 example with two labels in its
\* first row is done; it was flipped left-right and not up-down (the two
\* draws differ), and the colour steps changed the image.
C13_Witness ==
    /\ aPc = "done"
    /\ Len(aIn.mask) = 2 /\ Len(aIn.mask[1]) = 2
    /\ aIn.mask[1][1].label # aIn.mask[1][2].label
    /\ randomVarLR = 0 /\ randomVarUD = 1
    /\ aMask[1][1].src = <<1, 2>> /\ aImg[1][1].src = <<1, 2>>
    /\ aImg[1][1].v # aIn.img[1][2].v

(***************************************************************************)
(* parseFunction (lines 162-195): the sizes of the resized image and mask. *)
(* tf.image.resize_images with preserve_aspect_ratio computes, in float32, *)
(*     scale = min(float(M) / float(height), float(M) / float(width))      *)
(*     size  = [int32(round(scale * float(height))),                       *)
(*              int32(round(scale * float(width)))]                        *)
(* where round is tf.round (halves go to the even neighbour).  A positive  *)
(* float32 is the record [m, e] of value m / 2^e with 2^23 <= m < 2^24.    *)
(* The resize kernels reject a size that is not positive.                  *)
(***************************************************************************)
\* the image sizes of the model: the small ones, and the sides 50 and 100
SourceSides == (1..MaxSourceSide) \cup {50, 100}
\* line 41: the default 2048, and smaller maxima
MaxImageSizes == {5, 8, 331, 2048}

RECURSIVE Pow2(_)
Pow2(n) == IF n = 0 THEN 1 ELSE 2 * Pow2(n - 1)

\* num / den rounded to the nearest integer, halves to the even one
RoundHalfEven(num, den) ==
    LET q == num \div den
        r == num % den
    IN  IF 2 * r < den THEN q
        ELSE IF 2 * r > den THEN q + 1
        ELSE IF q % 2 = 0 THEN q ELSE q + 1

\* a mantissa that rounding carried to 2^24 goes to the next binade
Normalise(m, e) == IF m = Pow2(24) THEN [m |-> Pow2(23), e |-> e - 1] ELSE [m |-> m, e |-> e]

RECURSIVE DivExponent(_, _, _)
DivExponent(a, b, e) == IF a * Pow2(e) >= Pow2(23) * b THEN e ELSE DivExponent(a, b, e + 1)

\* float32 a / b of two integers below 2^24, a / b < 2^24
F32Div(a, b) ==
    LET e == DivExponent(a, b, 0) IN Normalise(RoundHalfEven(a * Pow2(e), b), e)

RECURSIVE DropBits(_, _)
DropBits(p, d) == IF p \div Pow2(d) < Pow2(24) THEN d ELSE DropBits(p, d + 1)

\* float32 f * float(s) of a float32 and an integer below 2^24
F32MulInt(f, s) ==
    LET d == DropBits(f.m * s, 0) IN Normalise(RoundHalfEven(f.m * s, Pow2(d)), f.e - d)

F32Min(f, g) ==
    IF f.e > g.e THEN f
    ELSE IF f.e < g.e THEN g
    ELSE IF f.m <= g.m THEN f ELSE g

\* tf.round followed by to_int32
F32Round(f) == RoundHalfEven(f.m, Pow2(f.e))

\* the size resize_images gives a tensor of height x width for size = [M, M]
ResizeSize(height, width, M, preserveAspectRatio) ==
    IF ~preserveAspectRatio THEN <<M, M>>
    ELSE LET scale == F32Min(F32Div(M, height), F32Div(M, width))
         IN  <<F32Round(F32MulInt(scale, height)), F32Round(F32MulInt(scale, width))>>

\* line 167: preserve_aspect_ratio=True
ImgPreserveAspectRatio == TRUE

\* line 192: preserve_aspect_ratio=True
MaskPreserveAspectRatioOff == FALSE

MaskPreserveAspectRatio == TRUE

InitResize ==
    /\ rOptions \in [maxImageSize : MaxImageSizes, mapLabelsFromRGB : BOOLEAN]
    /\ \E h, w \in SourceSides :
          rSource \in {[img |-> <<h, w>>, mask |-> <<h, w>>],
                       [img |-> <<h, w>>, mask |-> <<w, h>>]}
    /\ imgShape = <<>> /\ maskShape = <<>>
    /\ rPc = "img"
    /\ FirstIdle /\ AuxIdleExcept("resize")

\* lines 164-168: the image
ResizeImg ==
    /\ rPc = "img"
    /\ imgShape' = ResizeSize(rSource.img[1], rSource.img[2], rOptions.maxImageSize,
                              ImgPreserveAspectRatio)
    /\ rPc' = IF imgShape'[1] > 0 /\ imgShape'[2] > 0 THEN "mask" ELSE "InvalidArgumentError"
    /\ UNCHANGED <<rOptions, rSource, maskShape, notResize>>

\* lines 171-175: the mask is decoded; the RGB mapping is an `assert False`
DecodeMask ==
    /\ rPc = "mask"
    /\ rPc' = IF rOptions.mapLabelsFromRGB THEN "AssertionError" ELSE "resizeMask"
    /\ UNCHANGED <<rOptions, rSource, imgShape, maskShape, notResize>>

\* lines 192-195: the mask
ResizeMask ==
    /\ rPc = "resizeMask"
    /\ maskShape' = ResizeSize(rSource.mask[1], rSource.mask[2], rOptions.maxImageSize,
                               MaskPreserveAspectRatio)
    /\ rPc' = IF maskShape'[1] > 0 /\ maskShape'[2] > 0 THEN "done" ELSE "InvalidArgumentError"
    /\ UNCHANGED <<rOptions, rSource, imgShape, notResize>>

NextResize == ResizeImg \/ DecodeMask \/ ResizeMask

SpecResize == InitResize /\ [][NextResize]_vars

\* shape is source scaled to the maximum M: its longer side is M and its
\* shorter side is a nearest integer of shorter * M / longer.
ScaledTo(shape, source, M) ==
    LET long == IF source[1] >= source[2] THEN 1 ELSE 2
        short == 3 - long
    IN  /\ shape[long] = M
        /\ 2 * shape[short] * source[long] - 2 * source[short] * M <= source[long]
        /\ 2 * source[short] * M - 2 * shape[short] * source[long] <= source[long]

\* C14: whatever the source size and the maximum M, the size computed for
\* the image and the size computed for the mask have the longer side equal to
\* M and the shorter side equal to the proportionally scaled, rounded value;
\* 100 x 50 (and 50 x 100) with M = 331 give 331 x 166 (166 x 331); an image
\* and a mask of the same source size get the same size.
C14_ResizedProportionally ==
    /\ imgShape # <<>> =>
          /\ ScaledTo(imgShape, rSource.img, rOptions.maxImageSize)
          /\ (rSource.img = <<100, 50>> /\ rOptions.maxImageSize = 331)
                => imgShape = <<331, 166>>
          /\ (rSource.img = <<50, 100>> /\ rOptions.maxImageSize = 331)
                => imgShape = <<166, 331>>
    /\ maskShape # <<>> =>
          /\ ScaledTo(maskShape, rSource.mask, rOptions.maxImageSize)
          /\ rSource.mask = rSource.img => maskShape = imgShape

\* C14 witness: the image and the mask of a 100 x 50 example are resized
\* with M = 331.
C14_Witness ==
    /\ rPc = "done"
    /\ rSource = [img |-> <<100, 50>>, mask |-> <<100, 50>>]
    /\ rOptions.maxImageSize = 331
    /\ imgShape = <<331, 166>> /\ maskShape = <<331, 166>>

(***************************************************************************)
(* The start of the script: the choice of the pretrained checkpoint (lines *)
(* 123-159), the encoder and the decoder (lines 351-375) and the opening   *)
(* of the training session (lines 434-470).  `assigned` holds the names    *)
(* the script has bound; a read of a name outside it raises NameError.     *)
(***************************************************************************)
\* line 69: choices=["NASNet", "IncResV2"]
ModelNames == {"NASNet", "IncResV2"}

InitStart ==
    /\ sOptions \in [modelName : ModelNames, trainModel : BOOLEAN,
                     startTrainingFromScratch : BOOLEAN, useSkipConnections : BOOLEAN,
                     tensorboardVisualization : BOOLEAN]
    /\ sFiles \in [pretrained : BOOLEAN, outputModelDir : {"absent", "empty", "checkpoint"},
                   logsDir : BOOLEAN]
    /\ assigned = {} /\ sRaised = "none"
    /\ sPc = "checkpoint"
    /\ FirstIdle /\ AuxIdleExcept("start")

\* The names among `names` that a read finds unbound.
Unbound(names) == names \ assigned

\* The script reads the names `names` and goes on to `next`, binding `binds`.
ReadThen(names, binds, next) ==
    IF Unbound(names) = {}
        THEN sPc' = next /\ assigned' = assigned \cup binds /\ UNCHANGED sRaised
        ELSE /\ sPc' = "NameError"
             /\ sRaised' = CHOOSE n \in Unbound(names) : TRUE
             /\ UNCHANGED assigned

\* lines 123-159: the pretrained checkpoint of the model, downloaded if absent
SelectCheckpoint ==
    /\ sPc = "checkpoint"
    /\ IF sOptions.modelName = "NASNet"
         THEN /\ assigned' = assigned \cup {"nasCheckpointFile", "checkpointFileName"}
              /\ sFiles' = [sFiles EXCEPT !.pretrained = TRUE]
              /\ sPc' = "model"
         ELSE IF sOptions.modelName = "IncResV2"
           THEN /\ assigned' = assigned \cup {"incResV2CheckpointFile", "checkpointFileName"}
                /\ sFiles' = [sFiles EXCEPT !.pretrained = TRUE]
                /\ sPc' = "model"
           ELSE sPc' = "exit" /\ UNCHANGED <<assigned, sFiles>>
    /\ UNCHANGED <<sOptions, sRaised, notStart>>

\* lines 351-368: the encoder
CreateModel ==
    /\ sPc = "model"
    /\ IF sOptions.modelName = "NASNet"
         THEN assigned' = assigned \cup {"logits", "endPoints"} /\ sPc' = "decoder"
         ELSE IF sOptions.modelName = "IncResV2"
           THEN /\ assigned' = assigned \cup {"net", "endPoints", "variablesToRestore"}
                /\ sPc' = "decoder"
           ELSE sPc' = "exit" /\ UNCHANGED assigned
    /\ UNCHANGED <<sOptions, sFiles, sRaised, notStart>>

\* lines 370-375: print (endPoints.keys()) and attachDecoder(net, endPoints, ...)
AttachDecoder ==
    /\ sPc = "decoder"
    /\ ReadThen({"endPoints", "net"}, {"predictedLogits", "predictedMask"}, "session")
    /\ UNCHANGED <<sOptions, sFiles, notStart>>

\* lines 434-470: the training session is opened
StartSession ==
    /\ sPc = "session"
    /\ IF ~sOptions.trainModel
         THEN sPc' = "ready" /\ UNCHANGED <<assigned, sRaised, sFiles>>
         ELSE IF sOptions.startTrainingFromScratch
           THEN /\ ReadThen({"variablesToRestore", "incResV2CheckpointFile"},
                            {"restorer"}, "ready")
                /\ sFiles' = [sFiles EXCEPT !.outputModelDir = "empty", !.logsDir = FALSE]
           ELSE /\ IF sFiles.outputModelDir = "checkpoint"
                     THEN sPc' = "ready" /\ assigned' = assigned \cup {"saver"}
                     ELSE sPc' = "IOError" /\ UNCHANGED assigned
                /\ UNCHANGED <<sRaised, sFiles>>
    /\ UNCHANGED <<sOptions, notStart>>

\* lines 468-470
SummaryWriter ==
    /\ sPc = "ready"
    /\ sOptions.trainModel /\ sOptions.tensorboardVisualization
    /\ "summaryWriter" \notin assigned
    /\ assigned' = assigned \cup {"summaryWriter"}
    /\ sFiles' = [sFiles EXCEPT !.logsDir = TRUE]
    /\ UNCHANGED <<sOptions, sRaised, sPc, notStart>>

NextStart == SelectCheckpoint \/ CreateModel \/ AttachDecoder \/ StartSession \/ SummaryWriter

SpecStart == InitStart /\ [][NextStart]_vars

\* C16: for NASNet and for IncResV2 the encoder leaves a final feature map
\* `net` and the mapping `endPoints` for the decoder, the start-from-scratch
\* path has `variablesToRestore` and the checkpoint file it restores, and no
\* step of the start reads a name that was never assigned.
C16_StartupNamesDefined ==
    sOptions.modelName \in {"NASNet", "IncResV2"} =>
        /\ sPc = "decoder" => {"net", "endPoints"} \subseteq assigned
        /\ (sPc = "session" /\ sOptions.trainModel /\ sOptions.startTrainingFromScratch) =>
              {"variablesToRestore", "incResV2CheckpointFile"} \subseteq assigned
        /\ sPc # "NameError"

(***************************************************************************)
(* The shapes of the batches of one training epoch (lines 482-519).  Each  *)
(* session.run pulls the next example.  The image and the mask of an       *)
(* example are two files, whose sizes nothing ties together: the image of  *)
(* height x width gives a predictedMask of shape [1, height, width, 1]     *)
(* (lines 316, 375), the mask file gives inputBatchMasks of shape          *)
(* [1, maskHeight, maskWidth, channels].  The loss (lines 384-391) flattens *)
(* both; its kernel raises InvalidArgumentError when the number of labels  *)
(* differs from the number of logit rows and computes the loss otherwise.  *)
(***************************************************************************)
\* channels of a decoded png mask
MaskChannels == {1, 3}

InitShape ==
    /\ hOptions \in [debug : BOOLEAN, displayStep : 1..MaxDisplayStep]
    /\ hNumFiles \in 1..MaxShapeFiles
    /\ hPos = 0 /\ hStep = 0 /\ hEpIdx = 0
    /\ predShape = <<>> /\ gtShape = <<>>
    /\ lossComputed = FALSE /\ hRaised = "none"
    /\ hPc = "loop"
    /\ FirstIdle /\ AuxIdleExcept("shape")

\* number of elements of a tensor of the given shape
RECURSIVE NumElements(_)
NumElements(shape) == IF shape = <<>> THEN 1 ELSE Head(shape) * NumElements(Tail(shape))

\* sparse_softmax_cross_entropy accepts the labels and logits of the batch
LossAccepts(pred, gt) == NumElements(pred) = NumElements(gt)

\* One session.run in the try block: it pulls the next batch, whose shapes
\* are pred and gt.  `check` is the check the run or the code after it makes
\* on the batch ("assert", "loss" or "none"); `next` is where the script goes on.
ShapePull(check, next) ==
    IF hPos = hNumFiles
      THEN /\ hPc' = "end"
           /\ UNCHANGED <<hPos, predShape, gtShape, lossComputed, hRaised>>
      ELSE
        /\ hPos' = hPos + 1
        /\ \E height, width, maskHeight, maskWidth \in 1..MaxShapeSide :
             \E channels \in MaskChannels :
                /\ predShape' = <<1, height, width, 1>>
                /\ gtShape' = <<1, maskHeight, maskWidth, channels>>
        /\ lossComputed' = (check = "loss" /\ LossAccepts(predShape', gtShape'))
        /\ IF check = "assert" /\ predShape' # gtShape'
             THEN hPc' = "aborted" /\ hRaised' = "AssertionError"
             ELSE IF check = "loss" /\ ~LossAccepts(predShape', gtShape')
               THEN hPc' = "aborted" /\ hRaised' = "InvalidArgumentError"
               ELSE hPc' = next /\ UNCHANGED hRaised

\* lines 484-493: the debug fetch and its assertion
ShapeDebugFetch ==
    /\ hPc = "loop" /\ hOptions.debug
    /\ ShapePull("assert", "endPoints")
    /\ hEpIdx' = 0
    /\ UNCHANGED <<hOptions, hNumFiles, hStep, notShape>>

\* lines 496-498
ShapeEndPointFetch ==
    /\ hPc = "endPoints"
    /\ ShapePull("none", IF hEpIdx + 1 = NumEndPoints THEN "grad" ELSE "endPoints")
    /\ hEpIdx' = IF hPos < hNumFiles THEN hEpIdx + 1 ELSE hEpIdx
    /\ UNCHANGED <<hOptions, hNumFiles, hStep, notShape>>

\* lines 500-505 (and 515-516 when the display test fails)
ShapeApplyGradients ==
    /\ hPc = IF hOptions.debug THEN "grad" ELSE "loop"
    /\ LET display == hStep % hOptions.displayStep = 0 IN
       /\ ShapePull("loss", IF display THEN "display" ELSE "loop")
       /\ hStep' = IF hPc' = "loop" THEN hStep + 1 ELSE hStep
    /\ UNCHANGED <<hOptions, hNumFiles, hEpIdx, notShape>>

\* lines 507-516
ShapeDisplayFetch ==
    /\ hPc = "display"
    /\ ShapePull("loss", "loop")
    /\ hStep' = IF hPc' = "loop" THEN hStep + 1 ELSE hStep
    /\ UNCHANGED <<hOptions, hNumFiles, hEpIdx, notShape>>

NextShape ==
    ShapeDebugFetch \/ ShapeEndPointFetch \/ ShapeApplyGradients \/ ShapeDisplayFetch

SpecShape == InitShape /\ [][NextShape]_vars

\* C17: in every run configuration, a batch whose predicted mask and
\* ground-truth mask differ in shape stops the run with a fatal error, and
\* no loss is computed on that batch.
C17_ShapeMismatchIsFatal ==
    predShape # gtShape => hRaised # "none" /\ ~lossComputed

(***************************************************************************)
(* legacy/inputReader.py: the InputReader's position in the train list.    *)
(* The module is Python 2 (xrange, line 50), so `/` on two ints is the     *)
(* floor division.  Indices are 0-based as in the source.                  *)
(***************************************************************************)
\* lines 8-25: the reader after __init__
InitReader ==
    /\ readerOptions \in [batchSize : 1..MaxBatchSize, trainingEpochs : 0..MaxReaderEpochs,
                          randomFetch : BOOLEAN]
    /\ totalImages \in 1..MaxImages
    /\ imageList \in IF readerOptions.randomFetch
                       THEN {[i \in 1..totalImages |-> i]}
                       ELSE Permutations(1..totalImages)
    /\ currentIndex = 0 /\ totalEpochs = 0
    /\ indices = <<>> /\ trainCalls = 0 /\ returned = "nothing" /\ restoredSteps = -1
    /\ readerPc = "ready"
    /\ FirstIdle /\ AuxIdleExcept("reader")

\* np.arange(from, to)
Arange(from, to) == [i \in 1..(to - from) |-> from + i - 1]

\* line 111: the entries that overshot are replaced, in order, by 0, 1, ...
WrapNothing(idx) == idx

WrapIndices(idx) ==
    [i \in 1..Len(idx) |->
        IF idx[i] >= totalImages
          THEN Cardinality({j \in 1..i : idx[j] >= totalImages}) - 1
          ELSE idx[i]]

\* lines 91-125
GetTrainBatch ==
    /\ readerPc = "ready"
    /\ trainCalls < MaxCalls
    /\ trainCalls' = trainCalls + 1
    /\ IF totalEpochs >= readerOptions.trainingEpochs
         THEN /\ returned' = "None"
              /\ UNCHANGED <<imageList, currentIndex, totalEpochs, indices, readerPc>>
         ELSE
           LET endIndex == currentIndex + readerOptions.batchSize IN
           /\ IF readerOptions.randomFetch
                THEN indices' \in [1..readerOptions.batchSize -> 0..(totalImages - 1)]
                ELSE indices' = IF endIndex > totalImages
                                  THEN WrapIndices(Arange(currentIndex, endIndex))
                                  ELSE Arange(currentIndex, endIndex)
           /\ IF \E i \in 1..Len(indices') : indices'[i] >= totalImages
                THEN \* line 113: self.imageList[index]
                     /\ readerPc' = "IndexError"
                     /\ UNCHANGED <<imageList, currentIndex, totalEpochs, returned>>
                ELSE /\ returned' = "batch"
                     /\ UNCHANGED readerPc
                     /\ IF endIndex > totalImages
                          THEN /\ currentIndex' = endIndex - totalImages
                               /\ totalEpochs' = totalEpochs + 1
                               /\ IF readerOptions.randomFetch
                                    THEN UNCHANGED imageList
                                    ELSE imageList' \in Permutations(1..totalImages)
                          ELSE /\ currentIndex' = endIndex
                               /\ UNCHANGED <<totalEpochs, imageList>>
    /\ UNCHANGED <<readerOptions, totalImages, restoredSteps, notReader>>

\* lines 146-148: the state restoreCheckpoint(numSteps) sets
Restored(numSteps) ==
    LET processedImages == numSteps * readerOptions.batchSize
    IN  [totalEpochs |-> processedImages \div totalImages,
         currentIndex |-> processedImages % totalImages]

\* lines 139-148
RestoreCheckpoint ==
    /\ readerPc = "ready"
    /\ \E numSteps \in 0..MaxCalls :
          /\ totalEpochs' = Restored(numSteps).totalEpochs
          /\ currentIndex' = Restored(numSteps).currentIndex
          /\ restoredSteps' = numSteps
    /\ UNCHANGED <<readerOptions, imageList, totalImages, indices, trainCalls, returned,
                   readerPc, notReader>>

NextReader == GetTrainBatch \/ RestoreCheckpoint

SpecReader == InitReader /\ [][NextReader]_vars

\* C18: in sequential mode with batchSize <= totalImages, the state a fresh
\* reader is in after n getTrainBatch trainCalls, each of which returned a batch, is
\* the state restoreCheckpoint(n) sets.
C18_RestoreMatchesReplay ==
    (/\ readerPc = "ready" /\ restoredSteps = -1 /\ returned # "None"
     /\ ~readerOptions.randomFetch
     /\ readerOptions.batchSize <= totalImages) =>
        /\ totalEpochs = Restored(trainCalls).totalEpochs
        /\ currentIndex = Restored(trainCalls).currentIndex

\* the mode of the two claims on the reader
Sequential == ~readerOptions.randomFetch /\ readerOptions.batchSize <= totalImages

\* C20: in sequential mode with batchSize <= totalImages, the current index
\* stays in 0..totalImages and every index of a fetched batch in
\* 0..totalImages - 1; a getTrainBatch call never lowers totalEpochs; once
\* totalEpochs >= trainingEpochs a call returns (None, None) and leaves the
\* reader as it is.
C20_ReaderInvariants ==
    /\ [](Sequential =>
              /\ 0 <= currentIndex /\ currentIndex <= totalImages
              /\ \A i \in 1..Len(indices) : 0 <= indices[i] /\ indices[i] < totalImages
              /\ readerPc # "IndexError")
    /\ [][(Sequential /\ trainCalls' = trainCalls + 1) =>
              /\ totalEpochs' >= totalEpochs
              /\ totalEpochs >= readerOptions.trainingEpochs =>
                    /\ returned' = "None"
                    /\ <<currentIndex, totalEpochs, indices, imageList>>' =
                          <<currentIndex, totalEpochs, indices, imageList>>
              /\ totalEpochs < readerOptions.trainingEpochs => returned' = "batch"]_vars

\* C20 witness: a fresh sequential reader of three images with batches of two
\* has wrapped around the end of the list (its last batch is the last image
\* and the first one), has finished its epochs, and has refused a call.
C20_Witness ==
    /\ ~readerOptions.randomFetch /\ restoredSteps = -1
    /\ totalImages = 3 /\ readerOptions.batchSize = 2
    /\ indices = <<2, 0>> /\ currentIndex = 1
    /\ totalEpochs = 1 /\ readerOptions.trainingEpochs = 1
    /\ returned = "None"

====
